---- MODULE Spec2Model ----
(***************************************************************************)
(* A model of evillens.GravitationalLens (src/evillens/gravitationalLens.py):*)
(* the pixel grids built by setup_grid, the convergence map, the deflection *)
(* integrator deflect, the ray tracer raytrace and the lens algebra          *)
(* __add__ / __sub__.                                                        *)
(*                                                                           *)
(* Numbers.  Angles are kept exact.  pixscale is an integer count of         *)
(* PixUnit = 0.5e-10 arcsec, so the tolerance 10**-10 of __add__ is PixTol   *)
(* units.  A coordinate is kept as its coefficient c in units of pixscale/2  *)
(* (the value is c * pixscale / 2); half pixels are the finest step the      *)
(* modelled offsets produce.  offset is kept doubled (offset2 = 2 * offset). *)
(* The source is Python 2 (print statements), so "/" on two ints floors.     *)
(*                                                                           *)
(* Arrays.  Every array-valued attribute is a record [ndim, shape, data];    *)
(* None (and "attribute never assigned") is NoneV, with ndim = -1.  The data *)
(* of kappa are its rows of integers; the data of a computed array name the  *)
(* computation that produced it and its inputs.                              *)
(***************************************************************************)
EXTENDS Integers, Sequences, FiniteSets, TLC

VARIABLES lens, last

vars == <<lens, last>>

(***************************************************************************)
(* Bounds of the model and constants of the program                         *)
(***************************************************************************)
MaxNX == 3
MaxTraceNX == 2
MaxAlgNX == 2
MaxN == 2
MaxN2 == 2
MaxOffset2 == 2
MaxProfile == 1
MaxCells == 9
DefaultNX == 100
DefaultPixscale == 2000000000
DefaultN == 1
DefaultOffset2 == 1
PixTol == 2

(***************************************************************************)
(* Values                                                                   *)
(***************************************************************************)
NoneV == [ndim |-> -1, shape |-> <<>>, data |-> <<>>]

IsNone(a) == a.ndim = -1

Arr2(r, c, d) == [ndim |-> 2, shape |-> <<r, c>>, data |-> d]

NoSource == [ndim |-> -1, Naxes |-> 0]

Max(a, b) == IF a >= b THEN a ELSE b

\* an optional argument: <<>> is "not given" (None), <<v>> is the value v
Opt(S) == {<<>>} \cup {<<v>> : v \in S}

Given(o, cur) == IF o = <<>> THEN cur ELSE o[1]

\* numpy broadcasting of two 2-D shapes
Broadcastable(s, t) ==
    /\ (s[1] = t[1] \/ s[1] = 1 \/ t[1] = 1)
    /\ (s[2] = t[2] \/ s[2] = 1 \/ t[2] = 1)

BShape(s, t) ==
    << IF s[1] = 1 THEN t[1] ELSE s[1], IF s[2] = 1 THEN t[2] ELSE s[2] >>

(***************************************************************************)
(* setup_grid                                                               *)
(***************************************************************************)
\* len(np.arange(start, stop, 1.0)), start and stop given doubled
ArangeLen(start2, stop2) == Max(0, (stop2 - start2 + 1) \div 2)

\* np.arange(-N/2.0, N/2.0, 1.0)*pixscale + pixscale, as coefficients of pixscale/2
LensAxis(N) == [k \in 1..ArangeLen(-N, N) |-> -N + 2 * (k - 1) + 2]

\* np.arange(-lo/2.0, hi/2.0, 1.0)*n2*pixscale + n2*pixscale - pixel_offset
ImageAxis(lo, hi, n2, offset2) ==
    [k \in 1..ArangeLen(-lo, hi) |-> (-lo + 2 * (k - 1)) * n2 + 2 * n2 - offset2]

\* Python 2: "/" on two ints is floor division, as "//" is
PyDiv(a, b) == a \div b

SetupGridOp(l, NXo, NYo, pso, no, n2o, offo) ==
    LET NX == Given(NXo, l.NX)
        NY == Given(NYo, l.NY)
        ps == Given(pso, l.pixscale)
        n == Given(no, l.n)
        n2 == Given(n2o, l.n2)
        off2 == Given(offo, l.offset2)
        ixg == ImageAxis(NX \div n, NX \div n, n2, off2)
        iyg == ImageAxis(NY \div n, PyDiv(NY, n), n2, off2)
    IN  [l EXCEPT !.NX = NX, !.NY = NY, !.pixscale = ps, !.n = n, !.n2 = n2,
                  !.offset2 = off2,
                  !.xgrid = LensAxis(NX), !.ygrid = LensAxis(NY),
                  !.pixel_offset2 = off2,
                  !.image_xgrid = ixg, !.image_ygrid = iyg,
                  !.NX_image = Len(iyg), !.NY_image = Len(ixg)]

\* the shapes of the meshes x, y and image_x, image_y (rows = y, columns = x)
LensShape(l) == <<Len(l.ygrid), Len(l.xgrid)>>

ImageShape(l) == <<Len(l.image_ygrid), Len(l.image_xgrid)>>

\* the grid parameters a computation read
Stamp(l) == <<l.NX, l.NY, l.pixscale, l.n, l.n2, l.offset2>>

(***************************************************************************)
(* __init__                                                                 *)
(***************************************************************************)
Blank ==
    [cls |-> "GravitationalLens",
     NX |-> 0, NY |-> 0, pixscale |-> 0, n |-> 1, n2 |-> 1, offset2 |-> 0,
     xgrid |-> <<>>, ygrid |-> <<>>, pixel_offset2 |-> 0,
     image_xgrid |-> <<>>, image_ygrid |-> <<>>, NX_image |-> 0, NY_image |-> 0,
     source |-> NoSource, alpha_x |-> NoneV, alpha_y |-> NoneV, kappa |-> NoneV,
     theta_x |-> NoneV, theta_y |-> NoneV, beta_x |-> NoneV, beta_y |-> NoneV,
     image |-> NoneV]

NewLens ==
    SetupGridOp(Blank, <<DefaultNX>>, <<DefaultNX>>, <<DefaultPixscale>>,
                <<DefaultN>>, <<DefaultN>>, <<DefaultOffset2>>)

\* no lens object bound to the name
Absent == [Blank EXCEPT !.cls = "absent"]

Ids == {"A", "B", "R", "D", "S"}

NoCall == [op |-> "init", id |-> "A", err |-> "none", args |-> <<>>]

Call(op, id, err, args) == [op |-> op, id |-> id, err |-> err, args |-> args]

(***************************************************************************)
(* The convergence map: build_kappa_map, read_kappa_from                    *)
(***************************************************************************)
\* The power-law profile evaluated at lens-plane pixel [i, j]: the real value
\* is kept as an integer that depends on the profile parameters c and on the
\* pixel, so that different maps and different pixels have different values.
Profile(c, i, j) == c * (2 * i + j)

\* kappa has the shape of the meshes x, y (line 124)
BuildKappaOp(l, c) ==
    LET ls == LensShape(l)
    IN  [l EXCEPT !.kappa =
            Arr2(ls[1], ls[2], [i \in 1..ls[1] |-> [j \in 1..ls[2] |-> Profile(c, i, j)]])]

\* A FITS file: the primary HDU's data (None for an empty HDU) and the header
\* keys the code reads.  data.shape is (NAXIS2, NAXIS1).
FitsFile(data, ps, npad, npad2) ==
    [data |-> data, pixscale |-> ps, NPADDING |-> npad, NPAD2 |-> npad2]

\* set_pixscale: the files drawn carry CDELT1 = CDELT2 = pixscale / 3600
SetPixscale(f) == f.pixscale

\* read_kappa_from: <<lens afterwards, exception>>
ReadKappaOp(l, f) ==
    LET l1 == [l EXCEPT !.kappa = f.data]
    IN  IF IsNone(f.data) THEN <<l1, "AttributeError">>
        ELSE IF f.data.ndim # 2 THEN <<l1, "AssertionError">>
        ELSE IF f.data.shape # <<f.data.shape[2], f.data.shape[1]>>
             THEN <<l1, "AssertionError">>
        ELSE <<SetupGridOp([l1 EXCEPT !.NX = f.data.shape[1], !.NY = f.data.shape[2],
                                       !.pixscale = SetPixscale(f),
                                       !.n = Given(f.NPADDING, 1),
                                       !.n2 = Given(f.NPAD2, 1)],
                           <<>>, <<>>, <<>>, <<>>, <<>>, <<>>), "none">>

(***************************************************************************)
(* deflect                                                                  *)
(***************************************************************************)
Methods == {"simpsons", "rectangles", "trapezoidal"}

\* the exception the integration of a 2-D kappa raises, "none" when it completes
IntegrateErr(l, method, fast) ==
    LET r == l.NX_image
        c == l.NY_image
        is == <<r, c>>
        ks == l.kappa.shape
        ls == LensShape(l)
        kernel == IF Broadcastable(ks, ls) THEN "none" ELSE "ValueError"
        plain == IF c = 0 THEN "IndexError"
                 ELSE IF r = 0 THEN "none"
                 ELSE kernel
        quick == IF c = 0 \/ r = 0 THEN "IndexError" ELSE kernel
    IN  IF method = "simpsons"
        THEN IF plain = "none" /\ r > 0 /\ BShape(ks, ls) # ls
             THEN "ValueError" ELSE plain
        ELSE IF method = "rectangles"
             THEN IF fast
                  THEN IF quick = "none"
                          /\ (\/ ~Broadcastable(is, ls)
                              \/ ~Broadcastable(BShape(ks, ls), BShape(is, ls)))
                       THEN "ValueError" ELSE quick
                  ELSE plain
        ELSE IF method = "trapezoidal"
             THEN IF ks[1] = 0 \/ ks[2] = 0 THEN "IndexError"
                  ELSE IF fast THEN quick ELSE plain
        ELSE "none"

\* element [k, m] of an array broadcast to a larger shape: an axis of
\* length 1 is repeated
Ix(dim, k) == IF dim = 1 THEN 1 ELSE k

\* the meshes of setup_grid (lines 86, 94): x[k, m] = xgrid[m], y[k, m] =
\* ygrid[k], image_x[i, j] = image_xgrid[j], image_y[i, j] = image_ygrid[i]
LensX(l, k, m) == l.xgrid[Ix(Len(l.xgrid), m)]

LensY(l, k, m) == l.ygrid[Ix(Len(l.ygrid), k)]

ImageX(l, i, j) == l.image_xgrid[Ix(Len(l.image_xgrid), j)]

ImageY(l, i, j) == l.image_ygrid[Ix(Len(l.image_ygrid), i)]

KappaAt(l, k, m) == l.kappa.data[Ix(l.kappa.shape[1], k)][Ix(l.kappa.shape[2], m)]

\* the weights of the trapezoidal rule for a kappa of R rows and C columns,
\* by the assignments of lines 250-256 in their order:
\* zeros, then the four corners set to 1
Corners(R, C, r, c) == IF r \in {1, R} /\ c \in {1, C} THEN 1 ELSE 0

\* weights[0:,1:-1] = 2.0
InnerColumns(R, C, r, c) == IF 1 < c /\ c < C THEN 2 ELSE Corners(R, C, r, c)

\* the last assignment overwriting instead of adding
WeightAtAssigned(R, C, r, c) ==
    IF 1 < r /\ r < R THEN 2 ELSE InnerColumns(R, C, r, c)

\* weights[1:-1,0:] += 2.0
WeightAt(R, C, r, c) ==
    InnerColumns(R, C, r, c) + (IF 1 < r /\ r < R THEN 2 ELSE 0)

Weights(R, C) == [r \in 1..R |-> [c \in 1..C |-> WeightAt(R, C, r, c)]]

\* K at [k, m] without the common factor pixscale**2 / pi, and the 4 of
\* 1.0/(np.pi*4.0), which is kept in the denominators
KernelAt(l, method, k, m) ==
    IF method = "trapezoidal"
    THEN WeightAt(l.kappa.shape[1], l.kappa.shape[2],
                  Ix(l.kappa.shape[1], k), Ix(l.kappa.shape[2], m)) * KappaAt(l, k, m)
    ELSE KappaAt(l, k, m)

KernelScale(method) == IF method = "trapezoidal" THEN 4 ELSE 1

\* A summand of np.sum, <<numerator, denominator>>, coordinates in units of
\* pixscale / 2.  Lines 243-244, 280-286 (and the integrand of 208-216):
\* K * (image_x[i,j] - x) / ((image_x[i,j] - x)**2 + (image_y[i,j] - y)**2)
PlainTerm(l, method, axis, i, j, k, m) ==
    LET dx == ImageX(l, i, j) - LensX(l, k, m)
        dy == ImageY(l, i, j) - LensY(l, k, m)
    IN  <<KernelAt(l, method, k, m) * (IF axis = "x" THEN dx ELSE dy),
          KernelScale(method) * (dx * dx + dy * dy)>>

\* line 229: y2 = (self.image_y - self.y)**2, the whole mesh image_y
MeshY2(l, i, k, m) ==
    (ImageY(l, k, m) - LensY(l, k, m)) * (ImageY(l, k, m) - LensY(l, k, m))

\* the y2 of line 229 in place of that of line 262
RowY2WholeMesh(l, i, k, m) == MeshY2(l, i, k, m)

\* line 262: y2 = (self.image_y[i,0] - self.y)**2
RowY2(l, i, k, m) ==
    (ImageY(l, i, 1) - LensY(l, k, m)) * (ImageY(l, i, 1) - LensY(l, k, m))

\* lines 235, 269: x2 = (self.image_x[0,j] - self.x)**2
ColumnX2(l, j, k, m) ==
    (ImageX(l, 1, j) - LensX(l, k, m)) * (ImageX(l, 1, j) - LensX(l, k, m))

\* the summand of the fast variants: lines 226-238 and 259-273
FastTerm(l, method, axis, i, j, k, m) ==
    IF axis = "y"
    THEN LET K2 == KernelAt(l, method, k, m) * (ImageY(l, i, 1) - LensY(l, k, m))
             y2 == IF method = "rectangles" THEN MeshY2(l, i, k, m) ELSE RowY2(l, i, k, m)
             dx == ImageX(l, i, j) - LensX(l, k, m)
         IN  <<K2, KernelScale(method) * (y2 + dx * dx)>>
    ELSE LET K2 == KernelAt(l, method, k, m) * (ImageX(l, 1, j) - LensX(l, k, m))
             x2 == ColumnX2(l, j, k, m)
             dy == ImageY(l, i, j) - LensY(l, k, m)
         IN  <<K2, KernelScale(method) * (x2 + dy * dy)>>

\* the shape of the array np.sum adds up
TermShape(l, method, fast, axis) ==
    IF method = "rectangles" /\ fast /\ axis = "y"
    THEN BShape(BShape(l.kappa.shape, LensShape(l)), BShape(ImageShape(l), LensShape(l)))
    ELSE BShape(l.kappa.shape, LensShape(l))

\* alpha[i, j] for every image pixel, as the array of summands that np.sum
\* (for simpsons: the nested simps) reduces; simpsons has no fast variant
Integral(l, method, fast, axis) ==
    LET s == TermShape(l, method, fast, axis)
    IN  [i \in 1..l.NX_image |-> [j \in 1..l.NY_image |->
            [k \in 1..s[1] |-> [m \in 1..s[2] |->
                IF fast /\ method # "simpsons"
                THEN FastTerm(l, method, axis, i, j, k, m)
                ELSE PlainTerm(l, method, axis, i, j, k, m)]]]]

\* the 2-D branch entered for a kappa of any dimension: a known method
\* fails inside numpy, an unknown one returns the np.empty arrays
DeflectErrNoShapeCheck(l, method, fast) ==
    IF IsNone(l.kappa) THEN "none"
    ELSE IF l.kappa.ndim # 2 THEN (IF method \in Methods THEN "ValueError" ELSE "none")
    ELSE IntegrateErr(l, method, fast)

\* the exception deflect raises, "none" when it returns
DeflectErr(l, method, fast) ==
    IF IsNone(l.kappa) THEN "none"
    ELSE IF l.kappa.ndim # 2 THEN "Exception"
    ELSE IntegrateErr(l, method, fast)

\* what the arrays alpha_x, alpha_y hold when deflect returns: the integral
\* named by its method and the grid it read, or, for an unrecognized method,
\* the uninitialized memory of np.empty (any contents: junk)
DeflectData(l, method, fast, junk, axis) ==
    IF method \in Methods
    THEN <<"deflect", method, fast, Stamp(l), Integral(l, method, fast, axis)>>
    ELSE <<"empty", IF l.NX_image * l.NY_image = 0 THEN 0 ELSE junk>>

DeflectOpKeep(l, method, fast, junk) ==
    IF IsNone(l.kappa) \/ DeflectErr(l, method, fast) # "none" THEN l
    ELSE [l EXCEPT
            !.alpha_x = Arr2(l.NX_image, l.NY_image, <<"x">> \o DeflectData(l, method, fast, junk, "x")),
            !.alpha_y = Arr2(l.NX_image, l.NY_image, <<"y">> \o DeflectData(l, method, fast, junk, "y"))]

DeflectOp(l, method, fast, junk) ==
    IF IsNone(l.kappa) THEN [l EXCEPT !.alpha_x = NoneV, !.alpha_y = NoneV]
    ELSE IF DeflectErr(l, method, fast) # "none" THEN l
    ELSE [l EXCEPT
            !.alpha_x = Arr2(l.NX_image, l.NY_image, <<"x">> \o DeflectData(l, method, fast, junk, "x")),
            !.alpha_y = Arr2(l.NX_image, l.NY_image, <<"y">> \o DeflectData(l, method, fast, junk, "y"))]

(***************************************************************************)
(* raytrace                                                                 *)
(***************************************************************************)
Mesh(l, axis) == Arr2(Len(l.image_ygrid), Len(l.image_xgrid),
                      <<"mesh", axis, IF axis = "x" THEN l.image_xgrid ELSE l.image_ygrid,
                        l.pixscale>>)

\* theta - alpha: <<array, exception>>; an ndarray minus None raises TypeError
\* for its first element, so not for an array with no elements
LensEquation(theta, alpha) ==
    IF IsNone(alpha)
    THEN IF theta.shape[1] * theta.shape[2] > 0 THEN <<NoneV, "TypeError">>
         ELSE <<[theta EXCEPT !.data = <<"minus", theta.data, <<>> >>], "none">>
    ELSE IF ~Broadcastable(theta.shape, alpha.shape) THEN <<NoneV, "ValueError">>
    ELSE <<[ndim |-> 2, shape |-> BShape(theta.shape, alpha.shape),
            data |-> <<"minus", theta.data, alpha.data>>], "none">>

Uninit(shape, junk) ==
    [ndim |-> Len(shape), shape |-> shape, data |-> <<"empty", junk>>]

\* the source check removed
SourceErrNever(l) == "none"

\* lines 552-553: raytrace refuses a lens with no source
SourceErr(l) == IF l.source.ndim = -1 THEN "Exception" ELSE "none"

\* raytrace: <<lens afterwards, exception>>
RaytraceOp(l, junk) ==
    IF SourceErr(l) # "none" THEN <<l, SourceErr(l)>>
    ELSE
    LET l1 == [l EXCEPT !.theta_x = Mesh(l, "x"), !.theta_y = Mesh(l, "y")]
        bx == LensEquation(l1.theta_x, l.alpha_x)
        by == LensEquation(l1.theta_y, l.alpha_y)
        l2 == [l1 EXCEPT !.beta_x = bx[1]]
        l3 == [l2 EXCEPT !.beta_y = by[1]]
        rows == l.NY \div l.n
        cols == l.NX \div l.n
        mono == l.source.ndim = 2
        ishape == IF mono THEN <<rows, cols>> ELSE <<l.source.Naxes, cols, rows>>
        \* the loop bounds on the two axes of beta
        n1 == IF mono THEN rows ELSE cols
        n2 == IF mono THEN cols ELSE rows
        loops == IF mono THEN n1 > 0 /\ n2 > 0
                 ELSE l.source.Naxes > 0 /\ n1 > 0 /\ n2 > 0
        l4 == [l3 EXCEPT !.image = Uninit(ishape, junk)]
        l5 == [l3 EXCEPT !.image = [ndim |-> Len(ishape), shape |-> ishape,
                                    data |-> <<"interp", by[1].data, bx[1].data>>]]
    IN  IF bx[2] # "none" THEN <<l1, bx[2]>>
        ELSE IF by[2] # "none" THEN <<l2, by[2]>>
        ELSE IF rows < 0 \/ cols < 0 THEN <<l3, "ValueError">>
        ELSE IF mono /\ cols = 0 THEN <<l4, "IndexError">>
        ELSE IF loops /\ (n1 > by[1].shape[1] \/ n2 > by[1].shape[2])
             THEN <<l4, "IndexError">>
        ELSE <<l5, "none">>

(***************************************************************************)
(* __add__, __sub__                                                         *)
(***************************************************************************)
\* issubclass(c, d) over the classes of the package
IsSubclass(c, d) == c = d \/ (c = "AnalyticSIELens" /\ d = "GravitationalLens")

Abs(v) == IF v < 0 THEN -v ELSE v

\* elementwise a + sign * b of two 2-D arrays of one shape
Combine(a, b, sign) ==
    [i \in 1..Len(a) |-> [j \in 1..Len(a[i]) |-> a[i][j] + sign * b[i][j]]]

\* the checks of lines 606-612 (642-648): the exception raised, or "none"
CompatErr(a, b) ==
    IF ~IsSubclass(a.cls, b.cls) /\ ~IsSubclass(b.cls, a.cls) THEN "TypeError"
    ELSE IF IsNone(a.kappa) \/ IsNone(b.kappa) THEN "AttributeError"
    ELSE IF Len(a.kappa.shape) # Len(b.kappa.shape) THEN "AssertionError"
    ELSE IF a.kappa.shape # b.kappa.shape THEN "AssertionError"
    ELSE IF ~(Abs(a.pixscale - b.pixscale) < PixTol) THEN "AssertionError"
    ELSE IF a.n # b.n THEN "AssertionError"
    ELSE IF a.n2 # b.n2 THEN "AssertionError"
    ELSE "none"

\* lines 614-621 (650-657): a new lens on a grid rebuilt from self
FreshLens(a) ==
    SetupGridOp([NewLens EXCEPT !.NX = a.kappa.shape[1], !.NY = a.kappa.shape[2],
                                !.pixscale = a.pixscale, !.n = a.n, !.n2 = a.n2],
                <<>>, <<>>, <<>>, <<>>, <<>>, <<>>)

\* self + right (sign = 1), self - right (sign = -1): <<new lens, exception>>
AlgebraOp(a, b, sign) ==
    LET tag == IF sign = 1 THEN "add" ELSE "sub"
        new == FreshLens(a)
        k == [new EXCEPT !.kappa = [a.kappa EXCEPT !.data = Combine(a.kappa.data, b.kappa.data, sign)]]
        both == ~IsNone(a.alpha_x) /\ ~IsNone(b.alpha_x)
        sum(u, v) == [ndim |-> 2, shape |-> BShape(u.shape, v.shape),
                      data |-> <<tag, u.data, v.data>>]
    IN  IF CompatErr(a, b) # "none" THEN <<Absent, CompatErr(a, b)>>
        ELSE IF a.kappa.ndim # 2 THEN <<Absent, "ValueError">>
        ELSE IF ~both THEN <<k, "none">>
        ELSE IF ~Broadcastable(a.alpha_x.shape, b.alpha_x.shape) THEN <<Absent, "ValueError">>
        ELSE IF IsNone(a.alpha_y) \/ IsNone(b.alpha_y) THEN <<Absent, "TypeError">>
        ELSE IF ~Broadcastable(a.alpha_y.shape, b.alpha_y.shape) THEN <<Absent, "ValueError">>
        ELSE <<[k EXCEPT !.alpha_x = sum(a.alpha_x, b.alpha_x),
                         !.alpha_y = sum(a.alpha_y, b.alpha_y)], "none">>

(***************************************************************************)
(* The grid alone: setup_grid called with any arguments                     *)
(***************************************************************************)
SetupGrid(id, NXs, NYs, pss, ns, n2s, offs) ==
    \E NXo \in NXs, NYo \in NYs, pso \in pss, no \in ns, n2o \in n2s, offo \in offs :
        /\ lens[id].cls # "absent"
        /\ lens' = [lens EXCEPT ![id] = SetupGridOp(@, NXo, NYo, pso, no, n2o, offo)]
        /\ last' = Call("setup_grid", id, "none", <<NXo, NYo, pso, no, n2o, offo>>)

InitOne ==
    /\ lens = [i \in {"A"} |-> NewLens]
    /\ last = NoCall

BuildKappa(id, cs) ==
    \E c \in cs :
        /\ lens[id].cls # "absent"
        /\ Len(lens[id].xgrid) * Len(lens[id].ygrid) <= MaxCells
        /\ lens' = [lens EXCEPT ![id] = BuildKappaOp(@, c)]
        /\ last' = Call("build_kappa_map", id, "none", <<c>>)

ReadKappa(id, files) ==
    \E f \in files :
        /\ lens[id].cls # "absent"
        /\ lens' = [lens EXCEPT ![id] = ReadKappaOp(@, f)[1]]
        /\ last' = Call("read_kappa_from", id, ReadKappaOp(lens[id], f)[2], <<f.data.ndim>>)

\* lens.source = s
AttachSource(id, srcs) ==
    \E s \in srcs :
        /\ lens[id].cls # "absent"
        /\ lens' = [lens EXCEPT ![id].source = s]
        /\ last' = Call("source", id, "none", <<s.ndim>>)

Deflect(id, methods, fasts) ==
    \E method \in methods, fast \in fasts :
      \E junk \in (IF method \in Methods THEN {0} ELSE 0..1) :
        /\ lens[id].cls # "absent"
        /\ lens' = [lens EXCEPT ![id] = DeflectOp(@, method, fast, junk)]
        /\ last' = Call("deflect", id, DeflectErr(lens[id], method, fast),
                        <<method, fast, ~IsNone(lens[id].alpha_x)>>)

Raytrace(id) ==
    \E junk \in 0..1 :
        /\ lens[id].cls # "absent"
        /\ lens' = [lens EXCEPT ![id] = RaytraceOp(@, junk)[1]]
        /\ last' = Call("raytrace", id, RaytraceOp(lens[id], junk)[2], <<>>)

\* dst = left + right (sign = 1) or left - right (sign = -1)
Algebra(dst, left, right, sign) ==
    LET res == AlgebraOp(lens[left], lens[right], sign)
    IN  /\ lens[left].cls # "absent" /\ lens[right].cls # "absent"
        /\ lens' = IF res[2] = "none" THEN [lens EXCEPT ![dst] = res[1]] ELSE lens
        /\ last' = Call(IF sign = 1 THEN "__add__" ELSE "__sub__", dst, res[2], <<left, right>>)

\* valid calls: positive pixel counts, the default pixel scale
GridSetup ==
    SetupGrid("A", {<<v>> : v \in 1..MaxNX}, {<<v>> : v \in 1..MaxNX}, {<<>>},
              {<<v>> : v \in 1..MaxN}, {<<v>> : v \in 1..MaxN2},
              {<<v>> : v \in 0..MaxOffset2})

\* calls that may pass a non-positive pixel count or pixel scale
GridSetupAny ==
    SetupGrid("A", Opt(-1..1), Opt(-1..1), Opt({-1, 0, DefaultPixscale}),
              {<<>>}, {<<>>}, {<<>>})

NextGrid == GridSetup \/ GridSetupAny

SpecGrid == InitOne /\ [][NextGrid]_vars

(***************************************************************************)
(* One lens: grid, convergence map, deflection                              *)
(***************************************************************************)
Files ==
    {FitsFile(NoneV, DefaultPixscale, <<>>, <<>>),
     FitsFile([ndim |-> 1, shape |-> <<2>>, data |-> <<1, 1>>], DefaultPixscale, <<>>, <<>>),
     FitsFile([ndim |-> 3, shape |-> <<1, 1, 1>>, data |-> <<1>>], DefaultPixscale, <<>>, <<>>)}
    \cup {FitsFile(Arr2(r, c, [i \in 1..r |-> [j \in 1..c |-> 1]]), DefaultPixscale, <<>>, <<>>) :
              r \in 1..2, c \in 1..2}

\* square grids; other shapes come from the files read
LensSetup ==
    \E v \in 1..MaxNX :
        SetupGrid("A", {<<v>>}, {<<v>>}, {<<>>}, {<<k>> : k \in 1..MaxN}, {<<>>}, {<<>>})

LensBuildKappa == BuildKappa("A", 1..MaxProfile)

LensReadKappa == ReadKappa("A", Files)

LensDeflect == Deflect("A", Methods \cup {"simpson"}, BOOLEAN)

Next == LensSetup \/ LensBuildKappa \/ LensReadKappa \/ LensDeflect

Spec == InitOne /\ [][Next]_vars

(***************************************************************************)
(* One lens, ray traced: any grid shape, one integration method             *)
(***************************************************************************)
Sources == {NoSource, [ndim |-> 2, Naxes |-> 1], [ndim |-> 3, Naxes |-> 2]}

\* grids of MaxTraceNX rows and up to as many columns
TraceSetup ==
    SetupGrid("A", {<<v>> : v \in 1..MaxTraceNX}, {<<MaxTraceNX>>}, {<<>>},
              {<<k>> : k \in 1..MaxN}, {<<>>}, {<<>>})

TraceBuildKappa == BuildKappa("A", {1})

TraceDeflect == Deflect("A", {"rectangles"}, {FALSE})

TraceSource == AttachSource("A", Sources)

TraceRaytrace == Raytrace("A")

NextTrace ==
    TraceSetup \/ TraceBuildKappa \/ TraceDeflect \/ TraceSource \/ TraceRaytrace

SpecTrace == InitOne /\ [][NextTrace]_vars

\* the same lens when no source is ever attached
NextNoSource == TraceSetup \/ TraceBuildKappa \/ TraceDeflect \/ TraceRaytrace

SpecNoSource == InitOne /\ [][NextNoSource]_vars

(***************************************************************************)
(* Two lenses combined.  __add__ and __sub__ change neither operand, so the *)
(* operands are drawn at the start: each is a new lens taken through        *)
(* setup_grid, build_kappa_map and deflect, a second setup_grid and         *)
(* build_kappa_map, with deflect run before or after the second grid.       *)
(***************************************************************************)
BuiltLens(NX1, NY1, n1, kap1, when, NX2, NY2, ps2, n, n2, kap2, c) ==
    LET l1 == SetupGridOp(NewLens, <<NX1>>, <<NY1>>, <<>>, <<n1>>, <<>>, <<>>)
        l2 == IF kap1 THEN BuildKappaOp(l1, c) ELSE l1
        l3 == IF when = "first" THEN DeflectOp(l2, "rectangles", FALSE, 0) ELSE l2
        l4 == SetupGridOp(l3, <<NX2>>, <<NY2>>, <<ps2>>, <<n>>, <<n2>>, <<>>)
        l5 == IF kap2 THEN BuildKappaOp(l4, c) ELSE l4
    IN  IF when = "last" THEN DeflectOp(l5, "rectangles", FALSE, 0) ELSE l5

Whens == {"never", "first", "last"}

LeftLenses ==
    {BuiltLens(MaxAlgNX, NY1, MaxN, kap1, when, NX2, MaxAlgNX, DefaultPixscale, n, 1, kap2, 1) :
        NY1 \in 1..MaxAlgNX, kap1 \in BOOLEAN, when \in Whens,
        NX2 \in 1..MaxAlgNX, n \in 1..MaxN, kap2 \in BOOLEAN}

RightLenses ==
    {BuiltLens(MaxAlgNX, r[1], MaxN, r[2], r[3], NX2, MaxAlgNX, ps2, n, n2, kap2, 2) :
        r \in (1..MaxAlgNX) \X BOOLEAN \X Whens,
        NX2 \in 1..MaxAlgNX, n \in 1..MaxN, kap2 \in BOOLEAN,
        ps2 \in {DefaultPixscale - PixTol, DefaultPixscale, DefaultPixscale + 1},
        n2 \in 1..MaxN2}

InitAlgebra ==
    /\ \E a \in LeftLenses, b \in RightLenses :
          lens = [i \in Ids |-> IF i = "A" THEN a ELSE IF i = "B" THEN b ELSE Absent]
    /\ last = NoCall

\* R = A + B
Add == Algebra("R", "A", "B", 1)

\* D = A - B
Sub == Algebra("D", "A", "B", -1)

\* S = R - B
SubBack == Algebra("S", "R", "B", -1)

NextAlgebra == Add \/ Sub \/ SubBack

SpecAlgebra == InitAlgebra /\ [][NextAlgebra]_vars

(***************************************************************************)
(* Properties                                                               *)
(***************************************************************************)
A == lens["A"]

B == lens["B"]

Has2DKappa(l) == l.kappa.ndim = 2

\* C1: deflect called with a 2-D kappa attached and an unrecognized method
\* name fails and leaves alpha_x and alpha_y absent.
C1_UnknownMethodFails ==
    (last.op = "deflect" /\ Has2DKappa(A) /\ last.args[1] \notin Methods)
        => (last.err # "none" /\ IsNone(A.alpha_x) /\ IsNone(A.alpha_y))

\* C2: raytrace on a lens with a source attached and no deflection field
\* fails, having written none of theta_x, theta_y, beta_x, beta_y, image.
C2_NoDeflectionFailsFast ==
    [][(/\ last'.op = "raytrace"
        /\ A.source.ndim # -1
        /\ (IsNone(A.alpha_x) \/ IsNone(A.alpha_y)))
       => (/\ last'.err # "none"
           /\ lens'["A"].theta_x = A.theta_x /\ lens'["A"].theta_y = A.theta_y
           /\ lens'["A"].beta_x = A.beta_x /\ lens'["A"].beta_y = A.beta_y
           /\ lens'["A"].image = A.image)]_vars

\* the grid checks of the lens algebra pass
GridCompatible(a, b) ==
    /\ Abs(a.pixscale - b.pixscale) < PixTol
    /\ a.n = b.n
    /\ a.n2 = b.n2
    /\ (~IsNone(a.kappa) /\ ~IsNone(b.kappa)) => a.kappa.shape = b.kappa.shape

\* the two deflection fields, when both are present, have one shape
SameAlphaShape(a, b) ==
    (~IsNone(a.alpha_x) /\ ~IsNone(b.alpha_x)) => a.alpha_x.shape = b.alpha_x.shape

Skipped(res, a, b) ==
    /\ IsNone(res.kappa) <=> (IsNone(a.kappa) \/ IsNone(b.kappa))
    /\ IsNone(res.alpha_x) <=> (IsNone(a.alpha_x) \/ IsNone(b.alpha_x))
    /\ IsNone(res.alpha_y) <=> (IsNone(a.alpha_y) \/ IsNone(b.alpha_y))

\* C3: A + B and A - B on grid-compatible lenses succeed for every
\* combination of present and absent kappa and deflection fields, and a field
\* absent on either operand is absent on the result (stated for operands whose
\* deflection fields, when both present, have one shape).
C3_AbsentFieldsSkipped ==
    (/\ last.op \in {"__add__", "__sub__"} /\ last.args = <<"A", "B">>
     /\ GridCompatible(A, B) /\ SameAlphaShape(A, B))
        => (/\ last.err = "none"
            /\ lens[last.id].cls # "absent"
            /\ Skipped(lens[last.id], A, B))

Mismatch(a, b) ==
    \/ (~IsNone(a.kappa) /\ ~IsNone(b.kappa) /\ a.kappa.shape # b.kappa.shape)
    \/ Abs(a.pixscale - b.pixscale) >= PixTol
    \/ a.n # b.n
    \/ a.n2 # b.n2

\* C4: A + B and A - B fail and return no lens when the kappa shapes differ,
\* the pixel scales differ by 1e-10 or more, or n or n2 differ; they succeed
\* when none of these holds and both kappa fields are present.
C4_CompatibilityDecides ==
    (last.op \in {"__add__", "__sub__"} /\ last.args = <<"A", "B">>)
        => (/\ Mismatch(A, B) => (last.err # "none" /\ lens[last.id].cls = "absent")
            /\ (~Mismatch(A, B) /\ ~IsNone(A.kappa) /\ ~IsNone(B.kappa))
                 => (last.err = "none" /\ lens[last.id].cls # "absent"))

\* the first half of C4 alone: a mismatch makes the operation fail
C4_MismatchFails ==
    (last.op \in {"__add__", "__sub__"} /\ last.args = <<"A", "B">> /\ Mismatch(A, B))
        => (last.err # "none" /\ lens[last.id].cls = "absent")

ValidGrid(l) == l.NX >= 1 /\ l.NY >= 1 /\ l.pixscale > 0 /\ l.n >= 1 /\ l.n2 >= 1

\* image_x[i, j] = x[k, m] and image_y[i, j] = y[k, m] for some pixels: the
\* meshes are image_x[i, j] = image_xgrid[j], x[k, m] = xgrid[m], and so on
Coincide(l) ==
    /\ \E j \in 1..Len(l.image_xgrid), m \in 1..Len(l.xgrid) :
          (l.image_xgrid[j] - l.xgrid[m]) = 0 \/ l.pixscale = 0
    /\ \E i \in 1..Len(l.image_ygrid), k \in 1..Len(l.ygrid) :
          (l.image_ygrid[i] - l.ygrid[k]) = 0 \/ l.pixscale = 0

\* C5: after setup_grid with valid parameters and any offset, no image-plane
\* sample equals a lens-plane sample.
C5_GridsNeverCoincide ==
    (last.op = "setup_grid" /\ ValidGrid(A)) => ~Coincide(A)

\* the stamp of the grid a deflection array was integrated on
AlphaFresh(l, a) ==
    (~IsNone(a) /\ a.data[2] = "deflect")
        => (a.data[5] = Stamp(l) /\ a.shape = ImageShape(l))

\* C6: whenever alpha_x / alpha_y are present they were computed on the
\* current grid and have the shape of the current image-plane grid, and a
\* completed raytrace combined the current image grid with such an alpha.
C6_NoStaleDeflection ==
    /\ AlphaFresh(A, A.alpha_x) /\ AlphaFresh(A, A.alpha_y)
    /\ (last.op = "raytrace" /\ last.err = "none" /\ ~IsNone(A.alpha_x))
         => (A.beta_x.data[3] = A.alpha_x.data /\ A.beta_x.shape = ImageShape(A))

\* C7: deflect on a lens with no kappa attached sets alpha_x and alpha_y to
\* None, whatever the method and whatever deflection was there before.
C7_NoKappaClearsDeflection ==
    (last.op = "deflect" /\ IsNone(A.kappa))
        => (IsNone(A.alpha_x) /\ IsNone(A.alpha_y))

C7_Witness ==
    /\ last.op = "deflect" /\ IsNone(A.kappa) /\ last.args[3]
    /\ last.args[1] = "simpson" /\ IsNone(A.alpha_x)

\* C8: deflect with a kappa that is not 2-D raises, for every method, and
\* leaves alpha_x and alpha_y as they were.
C8_Not2DRaises ==
    [][(last'.op = "deflect" /\ ~IsNone(A.kappa) /\ A.kappa.ndim # 2)
       => (/\ last'.err = "Exception"
           /\ lens'["A"].alpha_x = A.alpha_x /\ lens'["A"].alpha_y = A.alpha_y)]_vars

C8_Witness ==
    /\ last.op = "deflect" /\ last.err = "Exception" /\ A.kappa.ndim = 3
    /\ ~IsNone(A.alpha_x) /\ last.args[1] = "trapezoidal"

BadArg(o) == o # <<>> /\ o[1] <= 0

\* C9: setup_grid called with a non-positive NX, NY or pixscale fails and
\* leaves the coordinate lattices as they were.
C9_BadGridRejected ==
    [][(/\ last'.op = "setup_grid"
        /\ (BadArg(last'.args[1]) \/ BadArg(last'.args[2]) \/ BadArg(last'.args[3])))
       => (/\ last'.err # "none"
           /\ lens'["A"].xgrid = A.xgrid /\ lens'["A"].ygrid = A.ygrid
           /\ lens'["A"].image_xgrid = A.image_xgrid
           /\ lens'["A"].image_ygrid = A.image_ygrid)]_vars

\* C10: for grid-compatible A and B with both kappa present, A + B succeeds,
\* (A + B) - B succeeds, and its kappa equals A's kappa element for element.
C10_AddThenSubRestores ==
    (GridCompatible(A, B) /\ ~IsNone(A.kappa) /\ ~IsNone(B.kappa))
        => (/\ (last.op = "__add__" /\ last.id = "R") => last.err = "none"
            /\ last.id = "S" => (last.err = "none" /\ lens["S"].kappa = A.kappa))

\* the kappa half of C10: when both operations succeed the kappa is restored
C10_KappaRestored ==
    (last.id = "S" /\ last.err = "none") => lens["S"].kappa = A.kappa

\* the shape the observed image has on the image-plane grid
TraceShape(l) ==
    IF l.source.ndim = 2 THEN ImageShape(l) ELSE <<l.source.Naxes>> \o ImageShape(l)

\* raytrace has run on a valid grid with a source and a deflection field
\* computed on that grid
Traceable(l) ==
    /\ l.source.ndim # -1 /\ ValidGrid(l)
    /\ ~IsNone(l.alpha_x) /\ ~IsNone(l.alpha_y)
    /\ AlphaFresh(l, l.alpha_x) /\ AlphaFresh(l, l.alpha_y)

\* C11: a raytrace with a source and a current deflection field never indexes
\* beta out of bounds, and when it succeeds the image has the shape of the
\* image-plane grid: (NY//n, NX//n), with the channels in front for a
\* multi-channel source.
C11_ImageOnImageGrid ==
    (last.op = "raytrace" /\ Traceable(A))
        => (/\ last.err # "IndexError"
            /\ last.err = "none" => A.image.shape = TraceShape(A))

\* the single-channel half of C11
C11_MonoImageOnImageGrid ==
    (last.op = "raytrace" /\ Traceable(A) /\ A.source.ndim = 2)
        => (last.err = "none" /\ A.image.shape = ImageShape(A))

Symmetric(axis) == \A k \in 1..Len(axis) : axis[k] = -axis[Len(axis) + 1 - k]

NoZero(axis) == \A k \in 1..Len(axis) : axis[k] # 0

\* C14: after setup_grid with an even NX (even NY) no value of xgrid (ygrid)
\* is zero and the axis is symmetric about zero.
C14_EvenAxisAvoidsZero ==
    (last.op = "setup_grid" /\ ValidGrid(A))
        => (/\ A.NX % 2 = 0 => (NoZero(A.xgrid) /\ Symmetric(A.xgrid))
            /\ A.NY % 2 = 0 => (NoZero(A.ygrid) /\ Symmetric(A.ygrid)))

\* C15: raytrace on a lens with no source raises, whatever the deflection
\* field, and leaves theta, beta and image as they were.
C15_NoSourceRaises ==
    [][(last'.op = "raytrace" /\ A.source.ndim = -1)
       => (/\ last'.err = "Exception"
           /\ lens'["A"].theta_x = A.theta_x /\ lens'["A"].theta_y = A.theta_y
           /\ lens'["A"].beta_x = A.beta_x /\ lens'["A"].beta_y = A.beta_y
           /\ lens'["A"].image = A.image)]_vars

C15_Witness ==
    /\ last.op = "raytrace" /\ last.err = "Exception" /\ A.source.ndim = -1
    /\ ~IsNone(A.alpha_x) /\ IsNone(A.theta_x) /\ IsNone(A.image)

\* C17: the lens returned by A + B or A - B has the grid parameters of A, its
\* kappa has the shape of its lens-plane grid and its alpha_x, when present,
\* the shape of its image-plane grid (stated for operands whose kappa and
\* deflection field are on their current grid).
C17_ResultOnOperandGrid ==
    (/\ last.op \in {"__add__", "__sub__"} /\ last.args = <<"A", "B">>
     /\ last.err = "none" /\ ValidGrid(A)
     /\ A.kappa.shape = LensShape(A) /\ B.kappa.shape = LensShape(B)
     /\ AlphaFresh(A, A.alpha_x) /\ AlphaFresh(B, B.alpha_x))
        => (/\ Stamp(lens[last.id]) = Stamp(A)
            /\ lens[last.id].kappa.shape = LensShape(lens[last.id])
            /\ ~IsNone(lens[last.id].alpha_x)
                 => lens[last.id].alpha_x.shape = ImageShape(lens[last.id]))

\* C17 for operands on square grids with the default offset
C17_SquareResultOnOperandGrid ==
    (/\ last.op \in {"__add__", "__sub__"} /\ last.args = <<"A", "B">>
     /\ last.err = "none" /\ A.NX = A.NY
     /\ A.kappa.shape = LensShape(A) /\ B.kappa.shape = LensShape(B)
     /\ AlphaFresh(A, A.alpha_x) /\ AlphaFresh(B, B.alpha_x))
        => (/\ Stamp(lens[last.id]) = Stamp(A)
            /\ lens[last.id].kappa.shape = LensShape(lens[last.id])
            /\ ~IsNone(lens[last.id].alpha_x)
                 => lens[last.id].alpha_x.shape = ImageShape(lens[last.id]))

RECURSIVE Gcd(_, _)
Gcd(a, b) == IF b = 0 THEN a ELSE Gcd(b, a % b)

\* A value n / d as <<n, d>> in lowest terms, d > 0; a division by zero gives
\* <<1, 0>> (inf), <<-1, 0>> (-inf) or <<0, 0>> (nan)
Norm(q) ==
    IF q[2] = 0 THEN <<IF q[1] > 0 THEN 1 ELSE IF q[1] < 0 THEN -1 ELSE 0, 0>>
    ELSE <<q[1] \div Gcd(Abs(q[1]), q[2]), q[2] \div Gcd(Abs(q[1]), q[2])>>

AddQ(p, q) ==
    IF p[2] = 0 /\ q[2] = 0 THEN (IF p[1] = q[1] THEN p ELSE <<0, 0>>)
    ELSE IF p[2] = 0 THEN p
    ELSE IF q[2] = 0 THEN q
    ELSE LET L == (p[2] \div Gcd(p[2], q[2])) * q[2]
         IN  Norm(<<p[1] * (L \div p[2]) + q[1] * (L \div q[2]), L>>)

RECURSIVE SumRow(_)
SumRow(row) ==
    IF row = <<>> THEN <<0, 1>> ELSE AddQ(Norm(Head(row)), SumRow(Tail(row)))

RECURSIVE SumRows(_)
SumRows(rows) ==
    IF rows = <<>> THEN <<0, 1>> ELSE AddQ(SumRow(Head(rows)), SumRows(Tail(rows)))

\* np.sum of the summands of every pixel, exactly
Values(terms) ==
    [i \in 1..Len(terms) |-> [j \in 1..Len(terms[i]) |-> SumRows(terms[i][j])]]

\* deflect has just integrated a 2-D kappa by this method
Integrated(method, fast) ==
    /\ last.op = "deflect" /\ last.err = "none" /\ Has2DKappa(A)
    /\ last.args[1] = method /\ last.args[2] = fast

\* C12: on one lens state, rectangles with fast=True gives every image pixel
\* the alpha_x and alpha_y that rectangles with fast=False gives.
C12_FastRectanglesAgree ==
    (Integrated("rectangles", TRUE) /\ DeflectErr(A, "rectangles", FALSE) = "none")
        => (/\ Values(A.alpha_x.data[6]) = Values(Integral(A, "rectangles", FALSE, "x"))
            /\ Values(A.alpha_y.data[6]) = Values(Integral(A, "rectangles", FALSE, "y")))

\* the alpha_x half of C12, summand for summand
C12_FastRectanglesAgreeX ==
    (Integrated("rectangles", TRUE) /\ DeflectErr(A, "rectangles", FALSE) = "none")
        => A.alpha_x.data[6] = Integral(A, "rectangles", FALSE, "x")

\* C13: on one lens state, trapezoidal with fast=True gives every image pixel
\* the alpha_x and alpha_y of trapezoidal with fast=False: the summands built
\* from the row-fixed and column-fixed products are those of the plain variant.
C13_FastTrapezoidalAgree ==
    Integrated("trapezoidal", TRUE)
        => (/\ A.alpha_x.data[6] = Integral(A, "trapezoidal", FALSE, "x")
            /\ A.alpha_y.data[6] = Integral(A, "trapezoidal", FALSE, "y"))

C13_Witness ==
    /\ Integrated("trapezoidal", TRUE)
    /\ A.kappa.shape = <<3, 3>> /\ A.alpha_y.shape = <<3, 3>>
    /\ A.alpha_y.data[6] = Integral(A, "trapezoidal", FALSE, "y")

\* the weight of the composite trapezoidal rule at cell [r, c] of R x C cells
TrapezoidWeight(R, C, r, c) ==
    IF r \in {1, R} /\ c \in {1, C} THEN 1
    ELSE IF r \in {1, R} \/ c \in {1, C} THEN 2
    ELSE 4

\* C16: for a kappa of R >= 2 rows and C >= 2 columns the weights deflect
\* builds are 1 at the corners, 2 on the rest of the border and 4 inside, and
\* the kernel of every summand is that weight times kappa over 4.
C16_TrapezoidWeights ==
    (/\ last.op = "deflect" /\ last.err = "none" /\ Has2DKappa(A)
     /\ last.args[1] = "trapezoidal"
     /\ A.kappa.shape[1] >= 2 /\ A.kappa.shape[2] >= 2)
        => \A r \in 1..A.kappa.shape[1], c \in 1..A.kappa.shape[2] :
             /\ Weights(A.kappa.shape[1], A.kappa.shape[2])[r][c]
                  = TrapezoidWeight(A.kappa.shape[1], A.kappa.shape[2], r, c)
             /\ \A i \in 1..A.alpha_x.shape[1], j \in 1..A.alpha_x.shape[2] :
                  A.alpha_x.data[6][i][j][r][c] =
                      <<TrapezoidWeight(A.kappa.shape[1], A.kappa.shape[2], r, c)
                            * A.kappa.data[r][c] * (ImageX(A, i, j) - LensX(A, r, c)),
                        4 * ((ImageX(A, i, j) - LensX(A, r, c)) * (ImageX(A, i, j) - LensX(A, r, c))
                             + (ImageY(A, i, j) - LensY(A, r, c)) * (ImageY(A, i, j) - LensY(A, r, c)))>>

C16_Witness ==
    /\ last.op = "deflect" /\ last.err = "none" /\ last.args[1] = "trapezoidal"
    /\ ~last.args[2]
    /\ A.kappa.shape = <<3, 3>> /\ A.alpha_x.shape = <<3, 3>>
    /\ Weights(3, 3)[2][2] = 4 /\ Weights(3, 3)[1][2] = 2 /\ Weights(3, 3)[3][1] = 1

====
